---- MODULE Spec2Model ----
(***************************************************************************)
(* Model of rheas-io/queue: BaseJob (src/src/baseJob.ts), BaseQueue        *)
(* (src/src/baseQueue.ts) and MemoryQueue (src/unnamed/part_000).          *)
(*                                                                         *)
(* Time is in milliseconds.  A job object is identified by the order of    *)
(* its construction (1, 2, ...).  One "chain" is one invocation of work()  *)
(* together with the re-invocations its own poll timer makes; one "run" is *)
(* one invocation of processJob().  The clock moves from one instant at    *)
(* which something falls due (a timer, an availableAt, the end of a lock)  *)
(* to a later one; timers fire at or after the instant they are due.       *)
(* Between the synchronous part of work() and the continuation of its      *)
(* await only code of the host runs; timers wait for the continuation.     *)
(***************************************************************************)
EXTENDS Integers, Sequences, FiniteSets, TLC

\* ---------------------------------------------------------------- bounds
MaxJobs == 2            \* job objects that are constructed and inserted
MaxRuns == 3            \* invocations of processJob
MaxChains == 2          \* work() invocations that may be alive together
MaxTime == 205          \* the clock does not pass this instant
Now0 == 100             \* Date.now() when the queue is constructed
MaxConcurrency == 2     \* largest argument given to setConcurrency
MaxConfigArg == 12      \* largest magnitude of an argument in SpecConfigure

\* ------------------------------------------------------ program constants
DefaultConcurrency == 2
DefaultPollInterval == 100
DefaultJobTimeout == 10000
DefaultAttempts == 0
DefaultLockedAt == 0

\* ------------------------------------------------------------ input sets
\* The jobs the host constructs: <<maxAttempts(), retryAfter() in ms, later()>>
JobInputs ==
    {<<1, 0, Now0 - 5>>, <<1, 0, Now0>>, <<1, 0, Now0 + 10>>, <<0, 0, Now0>>,
     <<1, Now0 + 5, Now0>>}
ConcurrencyInputs == -1 .. MaxConcurrency
TimeoutInputs == {0, 10}                \* inSeconds * 1000, in half milliseconds
\* hooks[j]: how often each hook of job j was invoked, whether the (async)
\* hooks of the job reject, and how many of their rejected promises nothing handles
NoHooks == [onSuccess |-> 0, onFailure |-> 0, onPermanentFailure |-> 0,
            rejects |-> FALSE, unhandled |-> 0]
RejectingHooks == [NoHooks EXCEPT !.rejects = TRUE]
Chains == 1 .. MaxChains

VARIABLES
    now,            \* Date.now()
    fields,         \* fields[j]: the fields of job object j (BaseJob)
    jobs,           \* MemoryQueue._jobs, a sequence of job objects
    concurrency,    \* BaseQueue._concurrency
    jobTimeout,     \* BaseQueue._jobTimeout
    pollTimer,      \* BaseQueue._pollTimer: 0 = undefined, c = the timer chain c set last
    chains,         \* chains[c]: where the work() invocation c stands
    runs,           \* runs[r]: the r-th invocation of processJob
    hooks           \* hooks[j]: how often each outcome hook of job j was invoked

vars == <<now, fields, jobs, concurrency, jobTimeout, pollTimer, chains, runs, hooks>>

Min(a, b) == IF a < b THEN a ELSE b
Max(a, b) == IF a > b THEN a ELSE b
Range(s) == {s[i] : i \in 1 .. Len(s)}

\* ------------------------------------------------------------------ BaseJob
attempts(f) == f.attempts
lockTime(f) == f.lockedAt
availableAt(f) == f.availableAt
triedMaxAttemptsStrict(f) == attempts(f) > f.maxAttempts
triedMaxAttempts(f) == attempts(f) >= f.maxAttempts
isStillLocked(f, t) == t < f.retryWaitInMillis + f.lockedAt
isAvailable(f, t) == t >= f.availableAt
isCancelled(f) == f.cancelled

\* new Job(data).maxAttempts(ma).retryAfter(..).later(..)
NewJob(ma, rw, av) ==
    [maxAttempts |-> ma, attempts |-> DefaultAttempts, retryWaitInMillis |-> rw,
     lockedAt |-> DefaultLockedAt, availableAt |-> av, cancelled |-> FALSE]

\* --------------------------------------------------------------- MemoryQueue
\* Array.prototype.indexOf: the first 0-based position of x, -1 when absent
indexOf(arr, x) ==
    IF \E i \in 1 .. Len(arr) : arr[i] = x
    THEN (CHOOSE i \in 1 .. Len(arr) :
              arr[i] = x /\ \A k \in 1 .. i - 1 : arr[k] # x) - 1
    ELSE -1

\* Array.prototype.splice(start, deleteCount) with 0-based start
splice(arr, start, deleteCount) ==
    LET len == Len(arr)
        s == IF start < 0 THEN Max(len + start, 0) ELSE Min(start, len)
        d == Min(Max(deleteCount, 0), len - s)
    IN  SubSeq(arr, 1, s) \o SubSeq(arr, s + d + 1, len)

removeJobFromQueue(arr, j) ==
    LET index == indexOf(arr, j)
    IN  IF index # 1 THEN splice(arr, index, 1) ELSE arr

jobReadyIgnoringCancel(f, t) ==
    ~isStillLocked(f, t) /\ isAvailable(f, t)

jobReadyForProcessing(f, t) ==
    ~isStillLocked(f, t) /\ isAvailable(f, t) /\ ~isCancelled(f)

\* Array.prototype.sort is stable: x goes behind every element not after it
RECURSIVE sortByAvailableAt(_, _)
sortByAvailableAt(s, fs) ==
    IF s = <<>> THEN <<>>
    ELSE LET rest == sortByAvailableAt(SubSeq(s, 1, Len(s) - 1), fs)
             x == s[Len(s)]
             k == Cardinality({i \in 1 .. Len(rest) :
                      availableAt(fs[rest[i]]) - availableAt(fs[x]) <= 0})
         IN  SubSeq(rest, 1, k) \o <<x>> \o SubSeq(rest, k + 1, Len(rest))

getNextJobsUnsorted(arr, fs, t, conc) ==
    LET poppedJobs == SelectSeq(arr, LAMBDA j : jobReadyForProcessing(fs[j], t))
    IN  IF conc # 0 /\ Len(poppedJobs) > conc
        THEN IF conc < 0
             THEN [threw |-> TRUE, list |-> <<>>]
             ELSE [threw |-> FALSE, list |-> SubSeq(poppedJobs, 1, conc)]
        ELSE [threw |-> FALSE, list |-> poppedJobs]

\* The value of getNextJobs(): threw = TRUE when `poppedJobs.length = n` raises
\* a RangeError (n negative), else the resolved array.
getNextJobs(arr, fs, t, conc) ==
    LET poppedJobs == sortByAvailableAt(
                          SelectSeq(arr, LAMBDA j : jobReadyForProcessing(fs[j], t)), fs)
    IN  IF conc # 0 /\ Len(poppedJobs) > conc
        THEN IF conc < 0
             THEN [threw |-> TRUE, list |-> <<>>]
             ELSE [threw |-> FALSE, list |-> SubSeq(poppedJobs, 1, conc)]
        ELSE [threw |-> FALSE, list |-> poppedJobs]

\* try { return event(); } catch (err) {}: the hook is called; an async hook
\* never throws into the try, its rejected promise is returned and dropped
raiseEvent(h, j, event) ==
    [h EXCEPT ![j][event] = @ + 1,
              ![j].unhandled = IF h[j].rejects THEN @ + 1 ELSE @]

\* The three outcome operations act on the pair (st.jobs, st.hooks)
failJobRemoving(st, j) ==
    [st EXCEPT !.jobs = splice(@, indexOf(@, j), 1),
               !.hooks = raiseEvent(@, j, "onFailure")]

failJobWrongHook(st, j) == [st EXCEPT !.hooks = raiseEvent(@, j, "onPermanentFailure")]

failJob(st, j) == [st EXCEPT !.hooks = raiseEvent(@, j, "onFailure")]

failJobForever(st, j) ==
    [st EXCEPT !.jobs = removeJobFromQueue(@, j),
               !.hooks = raiseEvent(@, j, "onPermanentFailure")]

finishJob(st, j) ==
    [st EXCEPT !.jobs = removeJobFromQueue(@, j),
               !.hooks = raiseEvent(@, j, "onSuccess")]

\* ----------------------------------------------------------------- BaseQueue
\* Node's setTimeout: a delay below 1 or above 2^31-1 becomes 1
TimerDelay(d) == IF d < 1 \/ d > 2147483647 THEN 1 ELSE d

NewRun(j, c, path, t, timeout) ==
    [job |-> j, chain |-> c, path |-> path, startedAt |-> t,
     due |-> IF path = "process" THEN t + TimerDelay(timeout) ELSE 0,
     proc |-> IF path = "process" THEN "running" ELSE "none",
     timer |-> IF path = "process" THEN "pending" ELSE "none",
     settled |-> path # "process",
     finishJob |-> 0, failJob |-> 0,
     failJobForever |-> IF path = "failJobForever" THEN 1 ELSE 0]

processJobUnchecked(st, j, c, fs, t, timeout) ==
    IF triedMaxAttempts(fs[j])
    THEN [failJobForever(st, j)
            EXCEPT !.runs = Append(@, NewRun(j, c, "failJobForever", t, timeout))]
    ELSE [st EXCEPT !.runs = Append(@, NewRun(j, c, "process", t, timeout))]

\* The synchronous part of processJob(job): st is (jobs, hooks, runs)
processJob(st, j, c, fs, t, timeout) ==
    IF triedMaxAttempts(fs[j])
    THEN [failJobForever(st, j)
            EXCEPT !.runs = Append(@, NewRun(j, c, "failJobForever", t, timeout))]
    ELSE IF isCancelled(fs[j])
    THEN [st EXCEPT !.runs = Append(@, NewRun(j, c, "cancelled", t, timeout))]
    ELSE [st EXCEPT !.runs = Append(@, NewRun(j, c, "process", t, timeout))]

RECURSIVE processJobs(_, _, _, _, _, _)
\* (await this.getNextJobs()).map((job) => this.processJob(job))
processJobs(st, list, c, fs, t, timeout) ==
    IF list = <<>> THEN st
    ELSE processJobs(processJob(st, list[1], c, fs, t, timeout),
                     Tail(list), c, fs, t, timeout)

Idle == [pc |-> "none", polled |-> <<>>, host |-> FALSE, due |-> 0]

\* await Promise.all(jobProcessors) is over once every run of the chain has
\* settled; work() then sets the poll timer.
AllSettled(rs, c) == \A r \in 1 .. Len(rs) : rs[r].chain = c => rs[r].settled

schedule(chs, c, t) ==
    [chs EXCEPT ![c] = [pc |-> "sleep", polled |-> <<>>, host |-> FALSE,
                        due |-> t + TimerDelay(DefaultPollInterval)]]

endCycle(chs, rs, c, t) ==
    IF chs[c].pc = "await" /\ AllSettled(rs, c) THEN schedule(chs, c, t) ELSE chs

endCycleTimer(chs, rs, c, pt) ==
    IF chs[c].pc = "await" /\ AllSettled(rs, c) THEN c ELSE pt

\* if (this._pollTimer) clearTimeout(this._pollTimer): only a pending timer is cancelled
clearPollTimer(chs, pt) ==
    IF pt # 0 /\ chs[pt].pc = "sleep" THEN [chs EXCEPT ![pt] = Idle] ELSE chs

\* The Node process has not been ended by an unhandled rejection
Alive == \A c \in Chains : chains[c].pc # "exited"
\* No continuation of an await is queued: timers and the clock may go on
Quiescent == Alive /\ \A c \in Chains : chains[c].pc # "fetched"
\* Synchronous code of the host, or a callback it queued before work(), may run
HostTurn == Alive /\ \A c \in Chains : chains[c].pc = "fetched" => chains[c].host

Init ==
    /\ now = Now0
    /\ fields = <<>>
    /\ jobs = <<>>
    /\ concurrency = DefaultConcurrency
    /\ jobTimeout = DefaultJobTimeout
    /\ pollTimer = 0
    /\ chains = [c \in Chains |-> Idle]
    /\ runs = <<>>
    /\ hooks = <<>>

workBodyEscaping(c, byHost) ==
    LET cleared == clearPollTimer(chains, pollTimer)
        next == getNextJobs(jobs, fields, now, concurrency)
    IN  IF next.threw
        THEN /\ chains' = [cleared EXCEPT ![c] = Idle]
             /\ pollTimer' = pollTimer
        ELSE /\ chains' = [cleared EXCEPT ![c] = [pc |-> "fetched", polled |-> next.list,
                                                  host |-> byHost, due |-> 0]]
             /\ pollTimer' = pollTimer

\* The body of work() up to its first await, run by chain c
workBody(c, byHost) ==
    LET cleared == clearPollTimer(chains, pollTimer)
        next == getNextJobs(jobs, fields, now, concurrency)
    IN  IF next.threw
        THEN /\ chains' = schedule(cleared, c, now)
             /\ pollTimer' = c
        ELSE /\ chains' = [cleared EXCEPT ![c] = [pc |-> "fetched", polled |-> next.list,
                                                  host |-> byHost, due |-> 0]]
             /\ pollTimer' = pollTimer

\* The host constructs a job and inserts it
Insert(ma, rw, at) ==
    /\ HostTurn
    /\ Len(fields) < MaxJobs
    /\ fields' = Append(fields, NewJob(ma, rw, at))
    /\ jobs' = Append(jobs, Len(fields) + 1)
    /\ hooks' = Append(hooks, NoHooks)
    /\ UNCHANGED <<now, concurrency, jobTimeout, pollTimer, chains, runs>>

\* The host inserts a job whose hooks are async functions that reject
InsertRejecting(ma, rw, at) ==
    /\ HostTurn
    /\ Len(fields) < MaxJobs
    /\ fields' = Append(fields, NewJob(ma, rw, at))
    /\ jobs' = Append(jobs, Len(fields) + 1)
    /\ hooks' = Append(hooks, RejectingHooks)
    /\ UNCHANGED <<now, concurrency, jobTimeout, pollTimer, chains, runs>>

CancelToggle(j) ==
    /\ HostTurn
    /\ j \in 1 .. Len(fields)
    /\ fields' = [fields EXCEPT ![j].cancelled = ~@]
    /\ UNCHANGED <<now, jobs, concurrency, jobTimeout, pollTimer, chains, runs, hooks>>

\* job.cancel(): the flag is set; cancelJob() of the queue manager is not in
\* these sources and neither BaseQueue nor MemoryQueue defines it, so the
\* stored array is left as it is
Cancel(j) ==
    /\ HostTurn
    /\ j \in 1 .. Len(fields)
    /\ fields' = [fields EXCEPT ![j].cancelled = TRUE]
    /\ UNCHANGED <<now, jobs, concurrency, jobTimeout, pollTimer, chains, runs, hooks>>

SetConcurrency(concurrentJobs) ==
    /\ HostTurn
    /\ concurrency' = IF concurrentJobs # 0 THEN concurrentJobs ELSE concurrency
    /\ UNCHANGED <<now, fields, jobs, jobTimeout, pollTimer, chains, runs, hooks>>

\* Math.trunc of h / 2
TruncHalf(h) == IF h >= 0 THEN h \div 2 ELSE -((-h) \div 2)

\* setTimeout(inSeconds), with h = inSeconds * 1000 in half milliseconds
SetTimeout(h) ==
    /\ HostTurn
    /\ jobTimeout' = IF h # 0 THEN TruncHalf(h) ELSE jobTimeout
    /\ UNCHANGED <<now, fields, jobs, concurrency, pollTimer, chains, runs, hooks>>

\* The host calls work() on a queue that is not working
Work(c) ==
    /\ HostTurn
    /\ \A k \in Chains : chains[k].pc = "none"
    /\ c = 1
    /\ workBody(c, TRUE)
    /\ UNCHANGED <<now, fields, jobs, concurrency, jobTimeout, runs, hooks>>

\* The host calls work() again on a queue that is working; the invocation
\* takes the first unused chain
Rework(c) ==
    /\ HostTurn
    /\ \E k \in Chains : chains[k].pc # "none"
    /\ chains[c].pc = "none"
    /\ \A k \in 1 .. c - 1 : chains[k].pc # "none"
    /\ workBody(c, TRUE)
    /\ UNCHANGED <<now, fields, jobs, concurrency, jobTimeout, runs, hooks>>

\* The poll timer of chain c fires: () => this.work()
PollTimerFire(c) ==
    /\ Quiescent
    /\ chains[c].pc = "sleep"
    /\ now >= chains[c].due
    /\ workBody(c, FALSE)
    /\ UNCHANGED <<now, fields, jobs, concurrency, jobTimeout, runs, hooks>>

\* work() resumes after `await this.getNextJobs()` and starts the processors
Dispatch(c) ==
    /\ chains[c].pc = "fetched"
    /\ Len(runs) + Len(chains[c].polled) <= MaxRuns
    /\ LET st == processJobs([jobs |-> jobs, hooks |-> hooks, runs |-> runs],
                             chains[c].polled, c, fields, now, jobTimeout)
           waiting == [chains EXCEPT ![c] = [pc |-> "await", polled |-> <<>>,
                                             host |-> FALSE, due |-> 0]]
       IN  /\ jobs' = st.jobs
           /\ hooks' = st.hooks
           /\ runs' = st.runs
           /\ chains' = endCycle(waiting, st.runs, c, now)
           /\ pollTimer' = endCycleTimer(waiting, st.runs, c, pollTimer)
    /\ UNCHANGED <<now, fields, concurrency, jobTimeout>>

rejectRunAgain(rs, r) ==
    LET st == failJob([jobs |-> jobs, hooks |-> hooks], rs[r].job)
        settledRuns == [rs EXCEPT ![r].settled = TRUE, ![r].failJob = @ + 1]
    IN  /\ runs' = settledRuns
        /\ jobs' = st.jobs
        /\ hooks' = st.hooks
        /\ chains' = endCycle(chains, settledRuns, rs[r].chain, now)
        /\ pollTimer' = endCycleTimer(chains, settledRuns, rs[r].chain, pollTimer)

\* reject(..) of the promise of run r, whose record is already rs[r]: only the
\* first settlement of the promise reaches .catch((reason) => this.failJob(job))
rejectRun(rs, r) ==
    IF rs[r].settled
    THEN /\ runs' = rs
         /\ UNCHANGED <<jobs, hooks, chains, pollTimer>>
    ELSE LET st == failJob([jobs |-> jobs, hooks |-> hooks], rs[r].job)
             settledRuns == [rs EXCEPT ![r].settled = TRUE, ![r].failJob = @ + 1]
         IN  /\ runs' = settledRuns
             /\ jobs' = st.jobs
             /\ hooks' = st.hooks
             /\ chains' = endCycle(chains, settledRuns, rs[r].chain, now)
             /\ pollTimer' = endCycleTimer(chains, settledRuns, rs[r].chain, pollTimer)

\* job.process() rejects: .catch((err) => reject(err)); the timer is not cleared
ProcessReject(r) ==
    /\ HostTurn
    /\ r \in 1 .. Len(runs)
    /\ runs[r].proc = "running"
    /\ rejectRun([runs EXCEPT ![r].proc = "rejected"], r)
    /\ UNCHANGED <<now, fields, concurrency, jobTimeout>>

\* The timer of run r fires: () => reject('Timed out!')
TimeoutFire(r) ==
    /\ Quiescent
    /\ r \in 1 .. Len(runs)
    /\ runs[r].timer = "pending"
    /\ now >= runs[r].due
    /\ rejectRun([runs EXCEPT ![r].timer = "fired"], r)
    /\ UNCHANGED <<now, fields, concurrency, jobTimeout>>

\* job.process() resolves: .then(() => this.finishJob(job))
\*   .then(() => clearTimeout(processTimeout)).then(resolve)
ProcessResolve(r) ==
    /\ HostTurn
    /\ r \in 1 .. Len(runs)
    /\ runs[r].proc = "running"
    /\ LET st == finishJob([jobs |-> jobs, hooks |-> hooks], runs[r].job)
           rs == [runs EXCEPT ![r].proc = "resolved",
                              ![r].finishJob = @ + 1,
                              ![r].timer = IF @ = "pending" THEN "cleared" ELSE @,
                              ![r].settled = TRUE]
       IN  /\ jobs' = st.jobs
           /\ hooks' = st.hooks
           /\ runs' = rs
           /\ chains' = endCycle(chains, rs, runs[r].chain, now)
           /\ pollTimer' = endCycleTimer(chains, rs, runs[r].chain, pollTimer)
    /\ UNCHANGED <<now, fields, concurrency, jobTimeout>>

\* A rejected promise of a hook that nothing handles: Node reports it once the
\* microtasks have run and, depending on its version and flags, only warns (no
\* step) or raises it as an uncaught exception, which ends the process
UnhandledRejection ==
    /\ Quiescent
    /\ \E j \in 1 .. Len(hooks) : hooks[j].unhandled > 0
    /\ chains' = [c \in Chains |-> [Idle EXCEPT !.pc = "exited"]]
    /\ UNCHANGED <<now, fields, jobs, concurrency, jobTimeout, pollTimer, runs, hooks>>

\* The instants at which something becomes possible
Deadlines ==
    {chains[c].due : c \in {k \in Chains : chains[k].pc = "sleep"}}
    \cup {runs[r].due : r \in {k \in 1 .. Len(runs) : runs[k].timer = "pending"}}
    \cup {availableAt(fields[j]) : j \in 1 .. Len(fields)}
    \cup {fields[j].retryWaitInMillis + lockTime(fields[j]) : j \in 1 .. Len(fields)}

\* Time passes, up to one of these instants
Tick ==
    /\ Quiescent
    /\ \E t \in Deadlines :
           /\ t > now
           /\ t <= MaxTime
           /\ now' = t
    /\ UNCHANGED <<fields, jobs, concurrency, jobTimeout, pollTimer, chains, runs, hooks>>

HostActs ==
    \/ \E in \in JobInputs : Insert(in[1], in[2], in[3])
    \/ \E j \in 1 .. MaxJobs : Cancel(j)

Configure ==
    \/ \E v \in ConcurrencyInputs : SetConcurrency(v)
    \/ \E h \in TimeoutInputs : SetTimeout(h)

Loop ==
    \/ \E c \in Chains : PollTimerFire(c)
    \/ \E c \in Chains : Dispatch(c)
    \/ \E r \in 1 .. MaxRuns : ProcessResolve(r)
    \/ \E r \in 1 .. MaxRuns : ProcessReject(r)
    \/ Tick

\* The host calls work() once, and may insert, cancel and configure at any time
Next ==
    \/ HostActs
    \/ Configure
    \/ \E c \in Chains : Work(c)
    \/ Loop
    \/ \E r \in 1 .. MaxRuns : TimeoutFire(r)

Spec == Init /\ [][Next]_vars

\* The host calls work() any number of times on a queue it leaves as constructed
\* (no job timeout falls due before MaxTime)
NextRework ==
    \/ HostActs
    \/ \E c \in Chains : Work(c)
    \/ \E c \in Chains : Rework(c)
    \/ Loop

SpecRework == Init /\ [][NextRework]_vars

\* The host calls work() once on a queue it leaves as constructed; the hooks of
\* a job may reject
NextHooks ==
    \/ HostActs
    \/ \E in \in JobInputs : InsertRejecting(in[1], in[2], in[3])
    \/ \E c \in Chains : Work(c)
    \/ Loop
    \/ UnhandledRejection

SpecHooks == Init /\ [][NextHooks]_vars

\* The event loop of Node runs every queued continuation and every timer that
\* is due, and the clock goes on; process() and the host are under no obligation
Fairness ==
    /\ WF_vars(Tick)
    /\ WF_vars(\E c \in Chains : Dispatch(c))
    /\ WF_vars(\E c \in Chains : PollTimerFire(c))
    /\ WF_vars(\E r \in 1 .. MaxRuns : TimeoutFire(r))

SpecFair == Init /\ [][Next]_vars /\ Fairness

\* The host only configures the queue, with arguments of either sign:
\* setConcurrency(v), and setTimeout(h / 2000) for h half milliseconds
ConfigureAny ==
    \/ \E v \in -MaxConfigArg .. MaxConfigArg : SetConcurrency(v)
    \/ \E h \in -MaxConfigArg .. MaxConfigArg : SetTimeout(h)

SpecConfigure == Init /\ [][ConfigureAny]_vars

TypeOK ==
    /\ now \in Now0 .. MaxTime
    /\ Len(fields) <= MaxJobs
    /\ Len(runs) <= MaxRuns
    /\ Range(jobs) \subseteq 1 .. Len(fields)
    /\ pollTimer \in 0 .. MaxChains

\* ------------------------------------------------------------------ claims
Runs == 1 .. Len(runs)
Jobs == 1 .. Len(fields)
RunsOf(j) == {r \in Runs : runs[r].job = j}
Outcomes(r) == runs[r].finishJob + runs[r].failJob + runs[r].failJobForever

\* A step in which work() of chain c receives the array of getNextJobs()
PollStep(c) == chains[c].pc # "fetched" /\ chains'[c].pc = "fetched"

\* Eligibility of a stored job, spelled out on the fields
Eligible(j) ==
    /\ j \in Range(jobs)
    /\ now >= fields[j].availableAt
    /\ ~(now < fields[j].lockedAt + fields[j].retryWaitInMillis)
    /\ ~fields[j].cancelled

\* C1 (as claimed): a job with maxAttempts = m >= 1 none of whose process()
\* calls succeeded has had process() started on it at most m times.
C1_StartedAtMostMaxAttempts ==
    \A j \in Jobs :
        (fields[j].maxAttempts >= 1 /\ \A r \in RunsOf(j) : runs[r].proc # "resolved")
        => Cardinality({r \in RunsOf(j) : runs[r].path = "process"})
               <= fields[j].maxAttempts

\* C2 (as claimed): every run of processJob that has settled by way of
\* process(), failJob or failJobForever has recorded exactly one outcome, so a
\* completion of process() after the timeout never adds finishJob.
C2_ExactlyOneOutcome ==
    \A r \in Runs : (runs[r].settled /\ runs[r].path # "cancelled") => Outcomes(r) = 1

\* C2 (amended): a run records nothing before its promise settles and exactly
\* one outcome when it settles (none for a cancelled job); failJob, finishJob
\* and failJobForever are each recorded at most once per run; a timeout with
\* process() still running is recorded as failJob alone; the only run with
\* two outcomes is one whose timer fired and whose process() resolved later:
\* failJob, then finishJob.
C2_OutcomesPerRun ==
    \A r \in Runs :
        /\ runs[r].finishJob <= 1 /\ runs[r].failJob <= 1 /\ runs[r].failJobForever <= 1
        /\ runs[r].path = "cancelled" => Outcomes(r) = 0
        /\ runs[r].path = "failJobForever" =>
               runs[r].failJobForever = 1 /\ Outcomes(r) = 1
        /\ runs[r].path = "process" =>
               /\ runs[r].failJobForever = 0
               /\ ~runs[r].settled => Outcomes(r) = 0
               /\ runs[r].settled => Outcomes(r) >= 1
               /\ (runs[r].timer = "fired" /\ runs[r].proc = "running") =>
                      runs[r].failJob = 1 /\ runs[r].finishJob = 0
               /\ runs[r].finishJob = 1 <=> runs[r].proc = "resolved"
               /\ Outcomes(r) = 2 =>
                      runs[r].timer = "fired" /\ runs[r].proc = "resolved"

\* A run timed out, was recorded as failed, and its process() resolved later
C2_Witness ==
    \E r \in Runs :
        /\ runs[r].timer = "fired" /\ runs[r].proc = "resolved"
        /\ runs[r].failJob = 1 /\ runs[r].finishJob = 1

\* C3 (as claimed): a job on which finishJob was called is absent from the
\* job collection.
C3_FinishedJobAbsent ==
    \A j \in Jobs : hooks[j].onSuccess > 0 => j \notin Range(jobs)

\* C4 (as claimed): a job on which failJobForever was called is absent from
\* the job collection.
C4_FailedForeverJobAbsent ==
    \A j \in Jobs : hooks[j].onPermanentFailure > 0 => j \notin Range(jobs)

\* C5: a run of processJob on a job with attempts >= maxAttempts called
\* failJobForever (and its hook) and has settled, without a process() call, a
\* timeout timer, finishJob or failJob.
C5_ExhaustedJobFailsForever ==
    \A r \in Runs :
        fields[runs[r].job].attempts >= fields[runs[r].job].maxAttempts =>
            /\ runs[r].path = "failJobForever"
            /\ runs[r].failJobForever = 1
            /\ hooks[runs[r].job].onPermanentFailure >= 1
            /\ runs[r].proc = "none"
            /\ runs[r].timer = "none"
            /\ runs[r].finishJob = 0 /\ runs[r].failJob = 0
            /\ hooks[runs[r].job].onSuccess = 0 /\ hooks[runs[r].job].onFailure = 0
            /\ runs[r].settled

\* processJob ran on a job that had used up its attempts
C5_Witness ==
    \E r \in Runs :
        /\ fields[runs[r].job].attempts >= fields[runs[r].job].maxAttempts
        /\ runs[r].path = "failJobForever"

\* C6 (as claimed): after an attempt on a job that ended in failJob, process()
\* is not started on the job again before retryWaitMillis have passed since
\* that attempt started.
C6_NoRestartWithinRetryWait ==
    \A r1 \in Runs, r2 \in Runs :
        (/\ r1 < r2 /\ runs[r1].job = runs[r2].job
         /\ runs[r1].path = "process" /\ runs[r2].path = "process"
         /\ runs[r1].failJob > 0)
        => runs[r2].startedAt >=
               runs[r1].startedAt + fields[runs[r1].job].retryWaitInMillis

\* C7: when the timeout timer of a run fires (jobTimeout after dispatch, or
\* later) while process() has not settled, that step calls failJob once for the
\* run (onFailure once), settles the run, leaves the job collection as it is
\* and leaves process() running.
C7_TimeoutFailsTheAttempt ==
    [][\A r \in Runs :
          (/\ runs[r].timer = "pending" /\ runs'[r].timer = "fired"
           /\ runs[r].proc = "running" /\ ~runs[r].settled)
          => /\ now >= runs[r].due
             /\ runs'[r].failJob = 1 /\ runs[r].failJob = 0
             /\ runs'[r].finishJob = 0 /\ runs'[r].failJobForever = 0
             /\ hooks'[runs[r].job].onFailure = hooks[runs[r].job].onFailure + 1
             /\ runs'[r].settled
             /\ runs'[r].proc = "running"
             /\ jobs' = jobs]_vars

\* A run timed out over a stored job whose process() is still running
C7_Witness ==
    \E r \in Runs :
        /\ runs[r].timer = "fired" /\ runs[r].proc = "running"
        /\ runs[r].failJob = 1 /\ runs[r].settled
        /\ runs[r].job \in Range(jobs)

\* C8 (as claimed): no poll starts while a processJob run is unsettled, and at
\* most one poll timer is pending.
C8_CyclesNeverOverlap ==
    /\ [](Cardinality({c \in Chains : chains[c].pc = "sleep"}) <= 1)
    /\ [][\A c \in Chains : PollStep(c) => \A r \in Runs : runs[r].settled]_vars

\* C9: every job in the array a poll receives is stored, available, not still
\* locked and not cancelled at that time.
C9_PolledJobsAreEligible ==
    [][\A c \in Chains : PollStep(c) =>
          \A i \in 1 .. Len(chains'[c].polled) : Eligible(chains'[c].polled[i])]_vars

\* A poll returned a job and left out a stored job that is not yet available
C9_Witness ==
    \E c \in Chains :
        /\ chains[c].pc = "fetched"
        /\ chains[c].polled # <<>>
        /\ \E j \in Range(jobs) \ Range(chains[c].polled) : now < fields[j].availableAt

EarlierOrTie(a, b) ==
    \/ fields[a].availableAt < fields[b].availableAt
    \/ /\ fields[a].availableAt = fields[b].availableAt
       /\ indexOf(jobs, a) < indexOf(jobs, b)

\* C10: the array a poll receives holds min(concurrency, number of eligible
\* jobs) eligible jobs, in ascending availableAt order with ties in insertion
\* order, and no eligible job left out is available earlier than one in it.
C10_PolledJobsAreTheEarliest ==
    [][\A c \in Chains : PollStep(c) =>
          LET list == chains'[c].polled
              eligible == {j \in Jobs : Eligible(j)}
          IN  /\ Len(list) = Min(concurrency, Cardinality(eligible))
              /\ Range(list) \subseteq eligible
              /\ \A i \in 1 .. Len(list), k \in 1 .. Len(list) :
                     i < k => EarlierOrTie(list[i], list[k])
              /\ \A j \in eligible \ Range(list), i \in 1 .. Len(list) :
                     fields[j].availableAt >= fields[list[i]].availableAt]_vars

\* A poll under concurrency 1 returned the later-inserted, earlier-available of
\* two eligible jobs
C10_Witness ==
    \E c \in Chains :
        /\ chains[c].pc = "fetched"
        /\ concurrency = 1
        /\ Len(chains[c].polled) = 1
        /\ \E k \in Range(jobs) :
               /\ Eligible(k)
               /\ indexOf(jobs, k) < indexOf(jobs, chains[c].polled[1])
               /\ fields[chains[c].polled[1]].availableAt < fields[k].availableAt

\* C11: in every step a job whose cancelled flag is set keeps it set, and the
\* array a poll receives in that step does not hold the job, whatever the step
\* is (insert, cancel again, poll, dispatch, an outcome) and whether or not the
\* job was dispatched before.
C11_CancelledStaysOut ==
    [][\A j \in Jobs :
          fields[j].cancelled =>
              /\ fields'[j].cancelled
              /\ \A c \in Chains :
                     PollStep(c) => j \notin Range(chains'[c].polled)]_vars

\* A stored, available, unlocked job that was dispatched before, was cancelled
\* afterwards, and is left out of the array a later poll received
C11_Witness ==
    \E j \in Range(jobs), c \in Chains :
        /\ fields[j].cancelled
        /\ now >= fields[j].availableAt
        /\ ~(now < fields[j].lockedAt + fields[j].retryWaitInMillis)
        /\ \E r \in RunsOf(j) : runs[r].path = "process" /\ runs[r].settled
        /\ chains[c].pc = "fetched"
        /\ ~chains[c].host
        /\ chains[c].polled = <<>>

\* The cycle of chain c is under way: polled, not yet at its poll timer
InCycle(c) == chains[c].pc \in {"fetched", "await"}

C13_ConcurrencyIsPositive == concurrency >= 1

\* C14 (as claimed): after any sequence of setTimeout() calls, with positive,
\* zero and negative arguments, the job timeout is strictly positive.
C14_JobTimeoutIsPositive == jobTimeout > 0

\* C15: a step in which failJob is called for a run invokes onFailure of the
\* run's job once and no other hook of any job, and leaves the job collection
\* (the job itself and every other job, in their order) and the fields of
\* every job (attempts, lockedAt, availableAt, cancelled, ...) as they were.
C15_FailJobOnlyNotifies ==
    [][\A r \in Runs :
          runs'[r].failJob > runs[r].failJob =>
              /\ runs'[r].failJob = runs[r].failJob + 1
              /\ hooks' = [hooks EXCEPT ![runs[r].job].onFailure = @ + 1]
              /\ jobs' = jobs
              /\ fields' = fields]_vars

\* failJob was called for a job whose process() rejected, with the job and
\* another job in the collection
C15_Witness ==
    \E r \in Runs :
        /\ runs[r].proc = "rejected" /\ runs[r].failJob = 1
        /\ hooks[runs[r].job].onFailure = 1
        /\ runs[r].job \in Range(jobs)
        /\ \E k \in Range(jobs) : k # runs[r].job

\* C16 (as claimed): a job leaves the job collection only in a step in which
\* finishJob or failJobForever is called on that very job (its onSuccess or
\* onPermanentFailure hook is invoked in the step), also when the job the
\* operation is called on is no longer in the collection.
C16_OnlyOwnOutcomeRemoves ==
    [][\A k \in Range(jobs) \ Range(jobs') :
          \/ hooks'[k].onSuccess > hooks[k].onSuccess
          \/ hooks'[k].onPermanentFailure > hooks[k].onPermanentFailure]_vars

\* C17 (as claimed): no error of an outcome hook escapes: no rejected promise
\* of a hook is left unhandled, and the process and its work loop are never
\* ended by one.
C17_HookErrorsNeverEscape ==
    /\ \A j \in Jobs : hooks[j].unhandled = 0
    /\ Alive

\* The runs a step starts
NewRuns == (Len(runs) + 1) .. Len(runs')

\* C18: a run of processJob started on a job that is cancelled and has
\* attempts < maxAttempts resolves at once: it starts no process() and no
\* timer, calls none of finishJob, failJob, failJobForever, invokes no hook of
\* the job, leaves the job's fields and its membership of the collection as
\* they were (the whole collection and all hooks when every run the step
\* starts is of this kind), and never records anything later.
C18_CancelledJobIsSkipped ==
    /\ [](\A r \in Runs :
             runs[r].path = "cancelled" =>
                 /\ runs[r].settled /\ Outcomes(r) = 0
                 /\ runs[r].proc = "none" /\ runs[r].timer = "none")
    /\ [][/\ \A r \in NewRuns :
              LET j == runs'[r].job
              IN  (fields[j].cancelled /\ fields[j].attempts < fields[j].maxAttempts)
                  => /\ runs'[r].path = "cancelled"
                     /\ runs'[r].settled /\ Outcomes(r)' = 0
                     /\ runs'[r].proc = "none" /\ runs'[r].timer = "none"
                     /\ hooks'[j] = hooks[j]
                     /\ fields'[j] = fields[j]
                     /\ (j \in Range(jobs')) <=> (j \in Range(jobs))
          /\ (/\ NewRuns # {}
              /\ \A r \in NewRuns :
                     /\ fields[runs'[r].job].cancelled
                     /\ fields[runs'[r].job].attempts < fields[runs'[r].job].maxAttempts)
             => jobs' = jobs /\ hooks' = hooks /\ fields' = fields]_vars

\* processJob ran on a stored job that was cancelled after the poll returned
\* it and that has attempts left
C18_Witness ==
    \E r \in Runs :
        /\ runs[r].path = "cancelled"
        /\ fields[runs[r].job].cancelled
        /\ fields[runs[r].job].attempts < fields[runs[r].job].maxAttempts
        /\ runs[r].job \in Range(jobs)

\* C19 (as claimed): at every moment the number of runs of processJob that
\* were dispatched and have not settled is at most the concurrency cap.
C19_UnsettledRunsWithinCap ==
    Cardinality({r \in Runs : ~runs[r].settled}) <= concurrency

\* C20 (as claimed, in the form a finite run refutes): a stored, available,
\* uncancelled job is never left out of a poll in favour of a job that is
\* spent, that is, one whose terminal outcome (finishJob or failJobForever) is
\* already recorded or whose process() was already started maxAttempts + 1
\* times; so no job waits without end behind such a job.
C20_NoJobWaitsBehindASpentJob ==
    [][\A c \in Chains : PollStep(c) =>
          \A b \in {j \in Jobs : Eligible(j)} \ Range(chains'[c].polled),
             a \in Range(chains'[c].polled) :
              /\ hooks[a].onSuccess = 0
              /\ hooks[a].onPermanentFailure = 0
              /\ Cardinality({r \in RunsOf(a) : runs[r].path = "process"})
                     <= fields[a].maxAttempts]_vars
====
